---- MODULE Spec2Model ----
(***************************************************************************)
(* DDPG agent (src/agent.py) and training loop (src/train_agent.py).       *)
(*                                                                         *)
(* Network parameters, the discount factor and the soft-update rate are    *)
(* exact rationals <<numerator, denominator>>.  The rates used here are    *)
(* dyadic and the parameters small integers, so every product and sum of   *)
(* the model is also exact in the float32 arithmetic of the program.       *)
(***************************************************************************)
EXTENDS Integers, Sequences, FiniteSets, TLC

(* ------------------------------ bounds -------------------------------- *)
MaxSteps == 4
MaxCap == 3
MaxBatch == 2
MaxEvery == 2
NParams == 1
MaxSoft == 3
MaxEpisodes == 3
MaxT == 6
MaxCalls == 6

(* program constants of the training loop *)
WindowLen == 100
Threshold == 30

(* value domains of the inputs *)
QVals == {-1, 2}
Halves == {<<1, 2>>, <<1, 1>>}
Taus == {<<1, 4>>, <<1, 2>>, <<1, 1>>}
TargetVals == {-2, -1, 1, 2}
Rewards == {1, 35}
NoiseVals == {1, 2}

(* ------------------------- rational arithmetic ------------------------ *)
Abs(x) == IF x < 0 THEN -x ELSE x

RECURSIVE GCD(_, _)
GCD(a, b) == IF b = 0 THEN a ELSE GCD(b, a % b)

(* Each operator binds its operands once: the value of {e : v \in {x}} is *)
(* computed from the value of x, not from its expression.                  *)
Norm(r) ==
    CHOOSE q \in { IF v[1] = 0 THEN <<0, 1>>
                   ELSE CHOOSE w \in { <<v[1] \div g, v[2] \div g>> :
                                          g \in {GCD(Abs(v[1]), v[2])} } : TRUE
                   : v \in {r} } : TRUE

RInt(i) == <<i, 1>>
RAdd(x, y) ==
    CHOOSE q \in { Norm(<<a[1] * b[2] + b[1] * a[2], a[2] * b[2]>>) :
                      a \in {x}, b \in {y} } : TRUE
RSub(x, y) ==
    CHOOSE q \in { Norm(<<a[1] * b[2] - b[1] * a[2], a[2] * b[2]>>) :
                      a \in {x}, b \in {y} } : TRUE
RMul(x, y) ==
    CHOOSE q \in { Norm(<<a[1] * b[1], a[2] * b[2]>>) :
                      a \in {x}, b \in {y} } : TRUE

RECURSIVE RPow(_, _)
RPow(x, k) == IF k = 0 THEN RInt(1) ELSE RMul(x, RPow(x, k - 1))

(* ------------------------------- state -------------------------------- *)
VARIABLES
    settings,       \* BUFFER_SIZE, BATCH_SIZE, UPDATE_EVERY, GAMMA, TAU
    memory,         \* ReplayBuffer.memory: the deque of Experience records
    t_step,         \* Agent.t_step
    actor,          \* live policy parameters
    critic,         \* live value parameters
    actor_target,   \* target policy parameters
    critic_target,  \* target value parameters
    apc,            \* position inside Agent.step / Agent.learn
    experiences,    \* the mini-batch returned by ReplayBuffer.sample
    next_Q,         \* learn: critic_target(next_states, next_actions)
    Q_prime,        \* learn: the critic's regression target
    raised,         \* the last call ended by raising an exception
    ret,            \* what the last call returned to its caller
    files,          \* the checkpoint files on disk, by resolved path
    directories,    \* the directories on disk, by resolved path
    n_add,          \* Experience records created so far (object identity)
    n_step,         \* Agent.step calls so far
    n_learn,        \* Agent.learn calls so far
    last_learn,     \* n_step at the latest learn call, 0 if none
    mode,           \* the live actor's module mode: "train" or "eval"
    grads,          \* the .grad accumulators: the losses each one holds
    call,           \* the latest call made on the Agent, with its argument
    saved,          \* per directory, the parameters its latest full save wrote
    soft,           \* a run of direct soft-update calls: rate, counts, start
    ddpg,           \* the local variables of the training loop ddpg()
    env             \* the environment the training loop drives

vars == <<settings, directories, memory, t_step, actor, critic, actor_target, critic_target,
          apc, experiences, next_Q, Q_prime, raised, ret, files, n_add,
          n_step, n_learn, last_learn, mode, grads, call, saved, soft, ddpg,
          env>>

(* what the Agent's own methods never touch *)
outside == <<soft, ddpg, env>>

BUFFER_SIZE == settings.BUFFER_SIZE
BATCH_SIZE == settings.BATCH_SIZE
UPDATE_EVERY == settings.UPDATE_EVERY
GAMMA == settings.GAMMA
TAU == settings.TAU

Settings ==
    [BUFFER_SIZE : 0..MaxCap, BATCH_SIZE : 1..MaxBatch,
     UPDATE_EVERY : 1..MaxEvery, GAMMA : Halves, TAU : {<<1, 2>>}]

(* The transitions a caller hands to Agent.step. *)
StepInputs ==
    { [state |-> 0, action |-> 0, reward |-> 2, next_state |-> 1, done |-> FALSE],
      [state |-> 1, action |-> 1, reward |-> 1, next_state |-> 0, done |-> TRUE] }

(* --------------------------- ReplayBuffer ----------------------------- *)
(* a deque that never evicts *)
DequeAppendUnbounded(q, e, maxlen) == Append(q, e)

(* deque(maxlen=n).append: drop from the left while over the bound. *)
DequeAppend(q, e, maxlen) ==
    LET full == Append(q, e)
    IN  IF Len(full) > maxlen
        THEN SubSeq(full, Len(full) - maxlen + 1, Len(full))
        ELSE full

Experience(id, in) ==
    [id |-> id, state |-> in.state, action |-> in.action, reward |-> in.reward,
     next_state |-> in.next_state, done |-> in.done]

BufferAdd(mem, id, in) == DequeAppend(mem, Experience(id, in), BUFFER_SIZE)

BufferLen(mem) == Len(mem)

(* a draw that may take one position twice *)
RandomSampleWithReplacement(n, k) == [1..k -> 1..n]

(* random.sample(population, k): k distinct positions, in any order. *)
RandomSample(n, k) ==
    {f \in [1..k -> 1..n] : \A i, j \in 1..k : i # j => f[i] # f[j]}

(* astype(np.uint8) then .float() of the done flags *)
DoneToFloat(d) == IF d THEN 1 ELSE 0

(* The five row-aligned arrays built from the drawn records. *)
Batch(mem, pos) ==
    [ids         |-> [i \in DOMAIN pos |-> mem[pos[i]].id],
     states      |-> [i \in DOMAIN pos |-> mem[pos[i]].state],
     actions     |-> [i \in DOMAIN pos |-> mem[pos[i]].action],
     rewards     |-> [i \in DOMAIN pos |-> mem[pos[i]].reward],
     next_states |-> [i \in DOMAIN pos |-> mem[pos[i]].next_state],
     dones       |-> [i \in DOMAIN pos |-> DoneToFloat(mem[pos[i]].done)]]

NoBatch == <<>>
NoRun == [pc |-> "none"]
None == [kind |-> "none"]

(* ---------------------------- checkpoints ----------------------------- *)
(* A path is the sequence of its "/"-separated components; the file system *)
(* resolves it by dropping the empty ones ("a//b" names "a/b").            *)
Resolve(path) == SelectSeq(path, LAMBDA c : c # "")

(* f"{checkpoint_path}/actor.pt" and f"{checkpoint_path}/critic.pt" *)
ActorFile(checkpoint_path) == Resolve(checkpoint_path \o <<"actor.pt">>)
CriticFile(checkpoint_path) == Resolve(checkpoint_path \o <<"critic.pt">>)

(* the default checkpoint_path of save_model and of load_model *)
SaveDefaultPath == <<".", "checkpoints", "">>
LoadDefaultPath == <<".", "checkpoints", "checkpoint.pt">>

Dirs == {SaveDefaultPath, LoadDefaultPath}
FilePaths == {ActorFile(d) : d \in Dirs} \cup {CriticFile(d) : d \in Dirs}
Absent == <<>>

(* The working directory always exists.  Nothing in the program creates or  *)
(* removes a directory: the ones on disk are those found at start-up, each  *)
(* inside a directory that exists.  A checkpoint directory may be missing,  *)
(* and the name critic.pt may be taken by a directory.                      *)
Root == <<".">>
Parent(path) == SubSeq(path, 1, Len(path) - 1)
DirNodes == {Resolve(SaveDefaultPath), Resolve(LoadDefaultPath),
             CriticFile(SaveDefaultPath)}
FileSystems ==
    {D \in SUBSET DirNodes : \A p \in D : Parent(p) = Root \/ Parent(p) \in D}

IsDir(path) == path = Root \/ path \in directories

(* open(path, "wb") inside torch.save: the parent must be a directory and   *)
(* the path itself must not be one                                          *)
CanWrite(path) == IsDir(Parent(path)) /\ ~IsDir(path)

(* ------------------------------- Agent -------------------------------- *)
(* The networks' parameters after construction: Actor(..., seed, ...) and   *)
(* Critic(..., seed, ...) are seeded, so each is one fixed vector.          *)
ActorInit == [i \in 1..NParams |-> RInt(i)]
CriticInit == [i \in 1..NParams |-> RInt(-i)]

(* The gradients a backward pass may leave on a parameter vector. *)
Grads == {[i \in 1..NParams |-> 0], [i \in 1..NParams |-> IF i = 1 THEN 1 ELSE -1]}

(* No backward pass has run: every .grad accumulator is empty. *)
NoGrads == [actor |-> {}, critic |-> {}, actor_target |-> {},
            critic_target |-> {}]

NoCall == [op |-> "none"]

(* Agent.__init__ and ReplayBuffer.__init__, but for the target copy *)
Constructed ==
    /\ memory = <<>>
    /\ t_step = 0
    /\ actor = ActorInit
    /\ critic = CriticInit
    /\ apc = "idle"
    /\ experiences = NoBatch
    /\ next_Q = <<>>
    /\ Q_prime = <<>>
    /\ raised = FALSE
    /\ ret = None
    /\ files = [p \in FilePaths |-> Absent]
    /\ n_add = 0
    /\ n_step = 0
    /\ n_learn = 0
    /\ last_learn = 0
    /\ mode = "train"
    /\ grads = NoGrads
    /\ call = NoCall
    /\ saved = [d \in Dirs |-> Absent]

(* lines 52-55: target_param.data.copy_(param.data) *)
TargetsCopied ==
    /\ actor_target = actor
    /\ critic_target = critic

Init ==
    /\ settings \in Settings
    /\ directories = {}
    /\ Constructed
    /\ TargetsCopied
    /\ soft = NoRun
    /\ ddpg = NoRun
    /\ env = NoRun

(* the guard with >= in place of > *)
EnoughSamplesNonStrict(mem) == BufferLen(mem) >= BATCH_SIZE

(* Agent.step, line 65: the guard on learning *)
EnoughSamples(mem) == BufferLen(mem) > BATCH_SIZE

(* a counter that never wraps *)
TStepNextNoWrap(t) == t + 1

(* Agent.step, line 62: the counter *)
TStepNext(t) == (t + 1) % UPDATE_EVERY

(* learning on every call *)
LearnDueAlways(t) == TRUE

(* Agent.step, line 63: the learning period has elapsed *)
LearnDue(t) == t = 0

(* Agent.step up to its call of learn (lines 59-66). *)
AgentStepBody(in) ==
    LET mem == BufferAdd(memory, n_add + 1, in)
        t   == TStepNext(t_step)
    IN  /\ memory' = mem
        /\ n_add' = n_add + 1
        /\ n_step' = n_step + 1
        /\ t_step' = t
        /\ raised' = FALSE
        /\ ret' = None
        /\ call' = [op |-> "step", arg |-> in]
        /\ IF LearnDue(t) /\ EnoughSamples(mem)
           THEN /\ \E pos \in RandomSample(BufferLen(mem), BATCH_SIZE) :
                       experiences' = Batch(mem, pos)
                /\ apc' = "learn"
                /\ n_learn' = n_learn + 1
                /\ last_learn' = n_step + 1
           ELSE /\ apc' = "idle"
                /\ UNCHANGED <<experiences, n_learn, last_learn>>
        /\ UNCHANGED <<next_Q, Q_prime, mode, grads, saved>>

Step ==
    /\ apc = "idle"
    /\ n_step < MaxSteps
    /\ \E in \in StepInputs : AgentStepBody(in)
    /\ UNCHANGED <<settings, directories, actor, critic, actor_target, critic_target, files,
                   outside>>

(* the target without its terminal mask *)
MaskOmitted(dones) == [i \in DOMAIN dones |-> 1]

(* learn, lines 103-107: Q_prime = rewards + gamma * next_Q * mask *)
Mask(dones) == [i \in DOMAIN dones |-> 1 - dones[i]]

QPrime(rewards, gamma, nq, mask) ==
    [i \in DOMAIN rewards |->
        RAdd(RInt(rewards[i]), RMul(RMul(gamma, RInt(nq[i])), RInt(mask[i])))]

LearnTarget ==
    /\ apc = "learn"
    /\ \E nq \in [1..BATCH_SIZE -> QVals] :
          /\ next_Q' = nq
          /\ Q_prime' = QPrime(experiences.rewards, GAMMA, nq,
                               Mask(experiences.dones))
    /\ apc' = "actor_step"
    /\ UNCHANGED <<settings, directories, mode, grads, call, saved,
                   memory, t_step, actor, critic, actor_target,
                   critic_target, experiences, raised, ret, files, n_add, n_step, n_learn,
                   last_learn, outside>>

(* The parameters each loss was computed from with gradient tracking:      *)
(* policy_loss (line 112) runs the live actor and the live critic;          *)
(* critic_loss (lines 104-108) runs the live critic against a detached      *)
(* target, so neither target network is in its graph.                       *)
PolicyLossGraph == {"actor", "critic"}
CriticLossGraph == {"critic"}

PolicyLoss == [loss |-> "policy", learn |-> n_learn]
CriticLoss == [loss |-> "critic", learn |-> n_learn]

(* a zero_grad() that clears nothing *)
ZeroGradSkipped(g, net) == g

(* net.zero_grad(): empties the accumulators of that network's parameters *)
ZeroGrad(g, net) == [g EXCEPT ![net] = {}]

(* loss.backward(): adds the loss to the accumulator of every parameter in *)
(* its graph                                                                *)
Backward(g, loss, graph) ==
    [net \in DOMAIN g |-> IF net \in graph THEN g[net] \cup {loss} ELSE g[net]]

(* optimizer.step(): moves the parameters the optimizer was built on      *)
(* (lines 41-44: the live ones) against their gradient.                    *)
OptimizerStep(params, grad) ==
    [i \in DOMAIN params |-> RSub(params[i], RInt(grad[i]))]

LearnActorStep ==
    /\ apc = "actor_step"
    /\ grads' = Backward(ZeroGrad(grads, "actor"), PolicyLoss, PolicyLossGraph)
    /\ \E g \in Grads : actor' = OptimizerStep(actor, g)
    /\ apc' = "critic_step"
    /\ UNCHANGED <<settings, directories, mode, call, saved,
                   memory, t_step, critic, actor_target,
                   critic_target, experiences, next_Q, Q_prime, raised, ret, files, n_add,
                   n_step, n_learn, last_learn, outside>>

(* a critic optimizer built over the target critic's parameters as well *)
LearnCriticStepOnTarget ==
    /\ apc = "critic_step"
    /\ grads' = Backward(ZeroGrad(grads, "critic"), CriticLoss, CriticLossGraph)
    /\ \E g \in Grads :
          /\ critic' = OptimizerStep(critic, g)
          /\ critic_target' = OptimizerStep(critic_target, g)
    /\ apc' = "actor_soft"
    /\ UNCHANGED <<settings, directories, mode, call, saved,
                   memory, t_step, actor, actor_target,
                   experiences, next_Q, Q_prime, raised, ret, files, n_add,
                   n_step, n_learn, last_learn, outside>>

LearnCriticStep ==
    /\ apc = "critic_step"
    /\ grads' = Backward(ZeroGrad(grads, "critic"), CriticLoss, CriticLossGraph)
    /\ \E g \in Grads : critic' = OptimizerStep(critic, g)
    /\ apc' = "actor_soft"
    /\ UNCHANGED <<settings, directories, mode, call, saved,
                   memory, t_step, actor, actor_target,
                   critic_target, experiences, next_Q, Q_prime, raised, ret, files, n_add,
                   n_step, n_learn, last_learn, outside>>

(* the two weights exchanged *)
SoftUpdateSwapped(target, live, tau) ==
    [i \in DOMAIN target |->
        RAdd(RMul(RSub(RInt(1), tau), live[i]), RMul(tau, target[i]))]

(* tau * param.data + (1.0 - tau) * target_param.data *)
SoftUpdate(target, live, tau) ==
    [i \in DOMAIN target |->
        RAdd(RMul(tau, live[i]), RMul(RSub(RInt(1), tau), target[i]))]

LearnActorSoftUpdate ==
    /\ apc = "actor_soft"
    /\ actor_target' = SoftUpdate(actor_target, actor, TAU)
    /\ apc' = "critic_soft"
    /\ UNCHANGED <<settings, directories, mode, grads, call, saved,
                   memory, t_step, actor, critic, critic_target,
                   experiences, next_Q, Q_prime, raised, ret, files, n_add, n_step,
                   n_learn, last_learn, outside>>

LearnCriticSoftUpdate ==
    /\ apc = "critic_soft"
    /\ critic_target' = SoftUpdate(critic_target, critic, TAU)
    /\ apc' = "idle"
    /\ experiences' = NoBatch
    /\ next_Q' = <<>>
    /\ Q_prime' = <<>>
    /\ UNCHANGED <<settings, directories, mode, grads, call, saved,
                   memory, t_step, actor, critic, actor_target,
                   raised, ret, files, n_add, n_step, n_learn, last_learn, outside>>

(* Agent.act: the live actor evaluated on one state.  The network is an    *)
(* external function approximator: any function of (parameters, state).    *)
ActorForward(params, state) ==
    LET RECURSIVE Sum(_)
        Sum(i) == IF i = 0 THEN 0 ELSE params[i][1] + Sum(i - 1)
    IN  (Sum(NParams) + state) % 2

(* nn.Module.eval() *)
ModuleEval(m) == "eval"

(* a train() that is never called *)
ModuleTrainSkipped(m) == m

(* nn.Module.train() *)
ModuleTrain(m) == "train"

ActBody(state) ==
    /\ ret' = [kind |-> "action", value |-> ActorForward(actor, state)]
    /\ mode' = ModuleTrain(ModuleEval(mode))
    /\ raised' = FALSE
    /\ call' = [op |-> "act", arg |-> state]
    /\ UNCHANGED <<grads, saved>>
    /\ UNCHANGED <<memory, t_step, actor, critic, actor_target, critic_target,
                   apc, experiences, next_Q, Q_prime, files, n_add, n_step,
                   n_learn, last_learn>>

Act ==
    /\ apc = "idle"
    /\ \E state \in {0, 1} : ActBody(state)
    /\ UNCHANGED <<settings, directories, outside>>

(* torch.save(state_dict, path), line 70 and then line 71: the first       *)
(* write that cannot open its file raises and ends the call, leaving what   *)
(* was written before it on disk.                                           *)
SaveStateDicts(checkpoint_path, actor_dict, critic_dict) ==
    /\ IF ~CanWrite(ActorFile(checkpoint_path))
       THEN /\ raised' = TRUE
            /\ UNCHANGED <<files, saved>>
       ELSE IF ~CanWrite(CriticFile(checkpoint_path))
       THEN /\ raised' = TRUE
            /\ files' = [files EXCEPT ![ActorFile(checkpoint_path)] = actor_dict]
            /\ UNCHANGED saved
       ELSE /\ raised' = FALSE
            /\ files' = [files EXCEPT
                            ![ActorFile(checkpoint_path)] = actor_dict,
                            ![CriticFile(checkpoint_path)] = critic_dict]
            /\ saved' = [saved EXCEPT ![checkpoint_path] = <<actor, critic>>]
    /\ ret' = None
    /\ call' = [op |-> "save_model", arg |-> checkpoint_path]
    /\ UNCHANGED <<mode, grads>>
    /\ UNCHANGED <<memory, t_step, actor, critic, actor_target, critic_target,
                   apc, experiences, next_Q, Q_prime, n_add, n_step, n_learn,
                   last_learn>>

(* a save of the target networks' state_dicts *)
SaveModelBodyTargets(checkpoint_path) ==
    SaveStateDicts(checkpoint_path, actor_target, critic_target)

(* Agent.save_model: torch.save of both live state_dicts *)
SaveModelBody(checkpoint_path) ==
    SaveStateDicts(checkpoint_path, actor, critic)

(* save_model raises: one of its two files cannot be opened for writing *)
SaveFails(checkpoint_path) ==
    ~CanWrite(ActorFile(checkpoint_path)) \/ ~CanWrite(CriticFile(checkpoint_path))

SaveModel ==
    /\ apc = "idle"
    /\ \E d \in Dirs : SaveModelBody(d)
    /\ UNCHANGED <<settings, directories, outside>>

(* Agent.load_model: the actor is loaded first, then the critic; torch.load *)
(* of a missing file raises.                                                *)
LoadModel ==
    /\ apc = "idle"
    /\ \E d \in Dirs :
          /\ call' = [op |-> "load_model", arg |-> d]
          /\ IF files[ActorFile(d)] = Absent
             THEN raised' = TRUE /\ UNCHANGED <<actor, critic>>
             ELSE /\ actor' = files[ActorFile(d)]
                  /\ IF files[CriticFile(d)] = Absent
                     THEN raised' = TRUE /\ UNCHANGED critic
                     ELSE raised' = FALSE /\ critic' = files[CriticFile(d)]
    /\ ret' = None
    /\ UNCHANGED <<settings, directories, mode, grads, saved,
                   memory, t_step, actor_target, critic_target, apc,
                   experiences, next_Q, Q_prime, files, n_add, n_step, n_learn,
                   last_learn, outside>>

(* ReplayBuffer.sample called by a caller other than Agent.step:           *)
(* random.sample raises ValueError when k exceeds the population.          *)
Sample ==
    /\ apc = "idle"
    /\ call' = [op |-> "sample"]
    /\ IF BATCH_SIZE > BufferLen(memory)
       THEN raised' = TRUE /\ ret' = None
       ELSE /\ raised' = FALSE
            /\ \E pos \in RandomSample(BufferLen(memory), BATCH_SIZE) :
                   ret' = [kind |-> "batch", value |-> Batch(memory, pos)]
    /\ UNCHANGED <<settings, directories, mode, grads, saved,
                   memory, t_step, actor, critic, actor_target,
                   critic_target, apc, experiences, next_Q, Q_prime, files,
                   n_add, n_step, n_learn, last_learn, outside>>

Learn ==
    \/ LearnTarget
    \/ LearnActorStep
    \/ LearnCriticStep
    \/ LearnActorSoftUpdate
    \/ LearnCriticSoftUpdate

(* The replay buffer and the learning schedule, under every setting. *)
Next ==
    \/ Step
    \/ Learn
    \/ Sample

Spec == Init /\ [][Next]_vars

(* Every operation of the Agent, under the settings that let it learn. *)
AgentSettings ==
    {s \in Settings : /\ s.BUFFER_SIZE = 2 /\ s.BATCH_SIZE = 1
                       /\ s.UPDATE_EVERY = 2
                       /\ s.GAMMA = <<1, 2>>}

InitAgent ==
    /\ settings \in AgentSettings
    /\ directories \in FileSystems
    /\ Constructed
    /\ TargetsCopied
    /\ soft = NoRun
    /\ ddpg = NoRun
    /\ env = NoRun

NextAgent ==
    \/ Step
    \/ Learn
    \/ Act
    \/ SaveModel
    \/ LoadModel

SpecAgent == InitAgent /\ [][NextAgent]_vars

(* ----------------- direct calls of the two soft updates ---------------- *)
(* actor_soft_update(tau) and critic_soft_update(tau) called repeatedly at  *)
(* one rate on a live network that no optimizer step moves.                 *)
SoftTargets == [1..NParams -> {RInt(v) : v \in TargetVals}]

InitSoft ==
    /\ settings \in AgentSettings
    /\ directories = {}
    /\ Constructed
    /\ actor_target \in SoftTargets
    /\ critic_target \in SoftTargets
    /\ \E tau \in Taus :
          soft = [pc |-> "run", tau |-> tau, k_actor |-> 0, k_critic |-> 0,
                  actor0 |-> actor_target, critic0 |-> critic_target]
    /\ ddpg = NoRun
    /\ env = NoRun

ActorSoftUpdate ==
    /\ soft.pc = "run"
    /\ soft.k_actor < MaxSoft
    /\ actor_target' = SoftUpdate(actor_target, actor, soft.tau)
    /\ soft' = [soft EXCEPT !.k_actor = @ + 1]
    /\ UNCHANGED <<settings, directories, mode, grads, call, saved,
                   memory, t_step, actor, critic, critic_target, apc,
                   experiences, next_Q, Q_prime, raised, ret, files, n_add,
                   n_step, n_learn, last_learn, ddpg, env>>

CriticSoftUpdate ==
    /\ soft.pc = "run"
    /\ soft.k_critic < MaxSoft
    /\ critic_target' = SoftUpdate(critic_target, critic, soft.tau)
    /\ soft' = [soft EXCEPT !.k_critic = @ + 1]
    /\ UNCHANGED <<settings, directories, mode, grads, call, saved,
                   memory, t_step, actor, critic, actor_target, apc,
                   experiences, next_Q, Q_prime, raised, ret, files, n_add,
                   n_step, n_learn, last_learn, ddpg, env>>

NextSoft ==
    \/ ActorSoftUpdate
    \/ CriticSoftUpdate

SpecSoft == InitSoft /\ [][NextSoft]_vars

(* -------------------------- the training loop -------------------------- *)
(* ddpg(env, agent, brain_name, action_size, n_episodes, max_t) driving one *)
(* Agent.  The environment is a stub whose observation is the number of     *)
(* steps taken since its reset and whose reward and done flag are free.     *)
TrainSettings ==
    [BUFFER_SIZE |-> 2, BATCH_SIZE |-> 1, UPDATE_EVERY |-> 4,
     GAMMA |-> <<1, 2>>, TAU |-> <<1, 2>>]

RECURSIVE SumSeq(_)
SumSeq(q) == IF q = <<>> THEN 0 ELSE q[1] + SumSeq(Tail(q))

(* np.mean(scores_window) >= 30, on a window that is never empty here *)
Solved(window) == SumSeq(window) >= Threshold * Len(window)

(* the loop saves to save_model's default path and never loads *)
TrainFileSystems == {D \in FileSystems : Resolve(LoadDefaultPath) \notin D}

(* lines 21-23, and the arguments of the call *)
InitTrain ==
    /\ settings = TrainSettings
    /\ directories \in TrainFileSystems
    /\ Constructed
    /\ TargetsCopied
    /\ soft = NoRun
    /\ \E n \in 0..MaxEpisodes, m \in 0..MaxT :
          /\ n * m <= MaxCalls
          /\ ddpg =
               [pc |-> "for_episode", n_episodes |-> n, max_t |-> m,
                  i_episode |-> 0, step |-> -1, score |-> 0, scores |-> <<>>,
                  scores_window |-> <<>>, state |-> 0, raw_action |-> 0,
                  action |-> 0, next_state |-> 0, reward |-> 0, done |-> FALSE,
                  step_calls |-> 0, saves |-> 0, calls |-> <<>>]
    /\ env = [closed |-> FALSE, resets |-> 0, obs |-> 0, outputs |-> <<>>,
              action |-> 0]

agentVars == <<memory, t_step, actor, critic, actor_target, critic_target,
               apc, experiences, next_Q, Q_prime, raised, ret, files, n_add,
               n_step, n_learn, last_learn, mode, grads, call, saved>>

(* a loop bound off by one: one episode too many *)
MoreEpisodesInclusive == ddpg.i_episode <= ddpg.n_episodes

(* line 24: for i_episode in range(1, n_episodes+1) *)
MoreEpisodes == ddpg.i_episode < ddpg.n_episodes

ForEpisode ==
    /\ ddpg.pc = "for_episode"
    /\ IF MoreEpisodes
       THEN ddpg' = [ddpg EXCEPT !.pc = "reset", !.i_episode = @ + 1]
       ELSE ddpg' = [ddpg EXCEPT !.pc = "close"]
    /\ UNCHANGED <<settings, directories, agentVars, soft, env>>

(* one call the loop made in the current episode, with the value it passed *)
(* (act, noise, agent.step) or got back (env.reset, env.step)              *)
Call(op, val) == [op |-> op, val |-> val]

(* lines 25-28: env.reset, noise.reset, score = 0 *)
Reset ==
    /\ ddpg.pc = "reset"
    /\ env' = [env EXCEPT !.resets = @ + 1, !.obs = 0, !.outputs = <<>>]
    /\ ddpg' = [ddpg EXCEPT !.pc = "for_step", !.state = 0, !.score = 0,
                            !.step = -1, !.step_calls = 0,
                            !.calls = <<Call("env.reset", 0),
                                        Call("noise.reset", 0)>>]
    /\ UNCHANGED <<settings, directories, agentVars, soft>>

(* line 29: for step in range(max_t) *)
MoreSteps == ddpg.step + 1 < ddpg.max_t

ForStep ==
    /\ ddpg.pc = "for_step"
    /\ IF MoreSteps
       THEN ddpg' = [ddpg EXCEPT !.pc = "act", !.step = @ + 1]
       ELSE ddpg' = [ddpg EXCEPT !.pc = "episode_end"]
    /\ UNCHANGED <<settings, directories, agentVars, soft, env>>

(* line 30: action = agent.act(state) *)
CallAct ==
    /\ ddpg.pc = "act"
    /\ ActBody(ddpg.state)
    /\ ddpg' = [ddpg EXCEPT !.pc = "noise",
                            !.raw_action = ActorForward(actor, ddpg.state),
                            !.action = ActorForward(actor, ddpg.state),
                            !.calls = Append(@, Call("act", ddpg.state))]
    /\ UNCHANGED <<settings, directories, soft, env>>

(* line 31: action = noise.get_action(action, step) *)
GetAction(action, step, n) == action + n

(* the noise process keyed by the episode number *)
NoiseKeyedByEpisode ==
    /\ ddpg.pc = "noise"
    /\ \E n \in NoiseVals :
          ddpg' = [ddpg EXCEPT !.pc = "env_step",
                               !.action = GetAction(ddpg.action, ddpg.i_episode, n),
                               !.calls = Append(@, Call("noise", ddpg.i_episode))]
    /\ UNCHANGED <<settings, directories, agentVars, soft, env>>

Noise ==
    /\ ddpg.pc = "noise"
    /\ \E n \in NoiseVals :
          ddpg' = [ddpg EXCEPT !.pc = "env_step",
                               !.action = GetAction(ddpg.action, ddpg.step, n),
                               !.calls = Append(@, Call("noise", ddpg.step))]
    /\ UNCHANGED <<settings, directories, agentVars, soft, env>>

(* lines 32-35: env.step(action) and the three values read from it *)
EnvStep ==
    /\ ddpg.pc = "env_step"
    /\ \E r \in Rewards, d \in BOOLEAN :
          /\ env' = [env EXCEPT !.obs = @ + 1,
                                !.outputs = Append(@, [reward |-> r, done |-> d]),
                                !.action = ddpg.action]
          /\ ddpg' = [ddpg EXCEPT !.pc = "agent_step",
                                  !.next_state = env.obs + 1,
                                  !.reward = r, !.done = d,
                                  !.calls = Append(@, Call("env.step",
                                                           env.obs + 1))]
    /\ UNCHANGED <<settings, directories, agentVars, soft>>

(* the call with the actor's raw output in place of the perturbed action *)
CallStepRawAction ==
    /\ ddpg.pc = "agent_step"
    /\ apc = "idle"
    /\ AgentStepBody([state |-> ddpg.state, action |-> ddpg.raw_action,
                      reward |-> ddpg.reward, next_state |-> ddpg.next_state,
                      done |-> ddpg.done])
    /\ ddpg' = [ddpg EXCEPT !.pc = "after_step", !.step_calls = @ + 1,
                            !.calls = Append(@, Call("agent.step",
                                                     ddpg.next_state))]
    /\ UNCHANGED <<settings, directories, actor, critic, actor_target, critic_target, files,
                   soft, env>>

(* line 36: agent.step(state, action, reward, next_state, done) *)
CallStep ==
    /\ ddpg.pc = "agent_step"
    /\ apc = "idle"
    /\ AgentStepBody([state |-> ddpg.state, action |-> ddpg.action,
                      reward |-> ddpg.reward, next_state |-> ddpg.next_state,
                      done |-> ddpg.done])
    /\ ddpg' = [ddpg EXCEPT !.pc = "after_step", !.step_calls = @ + 1,
                            !.calls = Append(@, Call("agent.step",
                                                     ddpg.next_state))]
    /\ UNCHANGED <<settings, directories, actor, critic, actor_target, critic_target, files,
                   soft, env>>

(* the loop body without its break *)
AfterStepNoBreak ==
    /\ ddpg.pc = "after_step"
    /\ apc = "idle"
    /\ ddpg' = [ddpg EXCEPT !.state = ddpg.next_state,
                            !.score = @ + ddpg.reward,
                            !.pc = "for_step"]
    /\ UNCHANGED <<settings, directories, agentVars, soft, env>>

(* lines 37-40: state = next_state; score += reward; if done: break *)
AfterStep ==
    /\ ddpg.pc = "after_step"
    /\ apc = "idle"
    /\ ddpg' = [ddpg EXCEPT !.state = ddpg.next_state,
                            !.score = @ + ddpg.reward,
                            !.pc = IF ddpg.done THEN "episode_end"
                                   ELSE "for_step"]
    /\ UNCHANGED <<settings, directories, agentVars, soft, env>>

(* the save without the break that follows it *)
EpisodeEndNoBreak ==
    /\ ddpg.pc = "episode_end"
    /\ LET window == DequeAppend(ddpg.scores_window, ddpg.score, WindowLen)
           scores == Append(ddpg.scores, ddpg.score)
       IN  IF Solved(window)
           THEN /\ SaveModelBody(SaveDefaultPath)
                /\ IF SaveFails(SaveDefaultPath)
                   THEN ddpg' = [ddpg EXCEPT !.scores_window = window,
                                             !.scores = scores,
                                             !.pc = "raised"]
                   ELSE ddpg' = [ddpg EXCEPT !.scores_window = window,
                                             !.scores = scores,
                                             !.saves = @ + 1,
                                             !.pc = "for_episode"]
           ELSE /\ ddpg' = [ddpg EXCEPT !.scores_window = window,
                                        !.scores = scores,
                                        !.pc = "for_episode"]
                /\ UNCHANGED agentVars
    /\ UNCHANGED <<settings, directories, soft, env>>

(* lines 41-49: record the score; stop and save once the window mean is    *)
(* 30.  An exception raised by save_model is caught nowhere: it leaves     *)
(* ddpg before the break, env.close() and the return (pc "raised"), and    *)
(* ddpg.saves counts the save_model calls that returned.                   *)
EpisodeEnd ==
    /\ ddpg.pc = "episode_end"
    /\ LET window == DequeAppend(ddpg.scores_window, ddpg.score, WindowLen)
           scores == Append(ddpg.scores, ddpg.score)
       IN  IF Solved(window)
           THEN /\ SaveModelBody(SaveDefaultPath)
                /\ IF SaveFails(SaveDefaultPath)
                   THEN ddpg' = [ddpg EXCEPT !.scores_window = window,
                                             !.scores = scores,
                                             !.pc = "raised"]
                   ELSE ddpg' = [ddpg EXCEPT !.scores_window = window,
                                             !.scores = scores,
                                             !.saves = @ + 1, !.pc = "close"]
           ELSE /\ ddpg' = [ddpg EXCEPT !.scores_window = window,
                                        !.scores = scores,
                                        !.pc = "for_episode"]
                /\ UNCHANGED agentVars
    /\ UNCHANGED <<settings, directories, soft, env>>

(* lines 50-51: env.close(); return scores *)
Close ==
    /\ ddpg.pc = "close"
    /\ env' = [env EXCEPT !.closed = TRUE]
    /\ ddpg' = [ddpg EXCEPT !.pc = "returned"]
    /\ ret' = [kind |-> "scores", value |-> ddpg.scores]
    /\ UNCHANGED <<settings, directories, mode, grads, call, saved,
                   memory, t_step, actor, critic, actor_target,
                   critic_target, apc, experiences, next_Q, Q_prime, raised,
                   files, n_add, n_step, n_learn, last_learn, soft>>

NextTrain ==
    \/ ForEpisode
    \/ Reset
    \/ ForStep
    \/ CallAct
    \/ Noise
    \/ EnvStep
    \/ CallStep
    \/ Learn
    \/ AfterStep
    \/ EpisodeEnd
    \/ Close

SpecTrain == InitTrain /\ [][NextTrain]_vars

(* one thread runs the loop: a statement that can run does run *)
SpecTrainFair == SpecTrain /\ WF_vars(NextTrain)

(* ============================== claims ================================ *)
Min(a, b) == IF a < b THEN a ELSE b

Ids(seq) == {seq[i].id : i \in 1..Len(seq)}

(* the ids a returned mini-batch holds *)
BatchIds(b) == {b.ids[i] : i \in DOMAIN b.ids}

(* C1: after n adds on a buffer of capacity C the buffer holds exactly the  *)
(* most recent min(n, C) records in insertion order, its length never       *)
(* exceeds C, and once n > C the first record is neither in the buffer nor  *)
(* in any mini-batch a sample() returns.                                    *)
C1_CapacityFifo ==
    /\ BufferLen(memory) = Min(n_add, BUFFER_SIZE)
    /\ BufferLen(memory) <= BUFFER_SIZE
    /\ \A i \in 1..Len(memory) : memory[i].id = n_add - Len(memory) + i
    /\ n_add > BUFFER_SIZE =>
          /\ 1 \notin Ids(memory)
          /\ experiences # NoBatch => 1 \notin BatchIds(experiences)
          /\ ret.kind = "batch" => 1 \notin BatchIds(ret.value)

C1_Witness ==
    /\ BUFFER_SIZE = 2
    /\ n_add > BUFFER_SIZE + 1
    /\ ret.kind = "batch"

(* C2: Agent.step has drawn a mini-batch only when the buffer held strictly *)
(* more than BATCH_SIZE records.                                            *)
C2_SampleGuard ==
    experiences # NoBatch =>
        /\ BufferLen(memory) > BATCH_SIZE
        /\ Len(experiences.ids) = BATCH_SIZE

C2_Witness ==
    /\ experiences # NoBatch
    /\ BufferLen(memory) = BATCH_SIZE + 1
    /\ BATCH_SIZE = 2

(* the buffered record a mini-batch row was built from *)
RowRecord(i) ==
    CHOOSE e \in {memory[j] : j \in 1..Len(memory)} : e.id = experiences.ids[i]

(* C5: in learn, a row whose record has done = true gets Q_prime equal to   *)
(* its reward, whatever the target critic returned and whatever gamma is; a *)
(* row with done = false gets reward + gamma * next_Q.                      *)
C5_TerminalMasking ==
    Q_prime # <<>> =>
        \A i \in 1..BATCH_SIZE :
            IF RowRecord(i).done
            THEN Q_prime[i] = RInt(RowRecord(i).reward)
            ELSE Q_prime[i] = RAdd(RInt(RowRecord(i).reward),
                                   RMul(GAMMA, RInt(next_Q[i])))

C5_Witness ==
    /\ Q_prime # <<>>
    /\ BATCH_SIZE = 2
    /\ \E i, j \in 1..BATCH_SIZE :
          /\ RowRecord(i).done /\ next_Q[i] = 2
          /\ ~RowRecord(j).done /\ next_Q[j] = -1
    /\ GAMMA = <<1, 2>>

(* C6: the targets equal the live parameters at construction; afterwards    *)
(* the target actor changes only in learn's actor_soft_update and the       *)
(* target critic only in learn's critic_soft_update, both after the two     *)
(* optimizer steps, which change live parameters only; step without         *)
(* learning, act, save_model and load_model leave the targets alone.        *)
C6_TargetIsolation ==
    /\ TargetsCopied
    /\ [][ /\ actor_target' # actor_target => apc = "actor_soft"
           /\ critic_target' # critic_target => apc = "critic_soft"
           /\ apc' = "actor_soft" => apc = "critic_step"
           /\ apc' = "critic_step" => apc = "actor_step"
           /\ apc' = "critic_soft" => apc = "actor_soft"
           /\ apc = "actor_step" => critic' = critic
           /\ apc = "critic_step" => actor' = actor
           /\ apc \in {"actor_soft", "critic_soft"} =>
                 actor' = actor /\ critic' = critic ]_vars

C6_Witness ==
    /\ apc = "critic_soft"
    /\ actor_target # actor
    /\ critic_target # critic
    /\ n_learn = 2
    /\ \E p \in FilePaths : files[p] # Absent

(* C7: with the live network fixed, after k soft updates at rate tau every  *)
(* target parameter differs from its live parameter by (1 - tau)^k times    *)
(* the initial difference; at tau = 1 one call makes them equal, and a      *)
(* target equal to live stays equal.                                        *)
C7_SoftUpdateGeometric ==
    soft.pc = "run" =>
        LET decay == RSub(RInt(1), soft.tau)
        IN  /\ \A i \in 1..NParams :
                  /\ RSub(actor_target[i], actor[i]) =
                        RMul(RPow(decay, soft.k_actor),
                             RSub(soft.actor0[i], actor[i]))
                  /\ RSub(critic_target[i], critic[i]) =
                        RMul(RPow(decay, soft.k_critic),
                             RSub(soft.critic0[i], critic[i]))
            /\ soft.tau = RInt(1) /\ soft.k_actor >= 1 => actor_target = actor
            /\ soft.tau = RInt(1) /\ soft.k_critic >= 1 => critic_target = critic
            /\ soft.actor0 = actor => actor_target = actor
            /\ soft.critic0 = critic => critic_target = critic

C7_Witness ==
    /\ soft.pc = "run"
    /\ soft.tau = <<1, 4>>
    /\ soft.k_actor = 3
    /\ soft.k_critic = 2
    /\ actor_target # actor
    /\ critic_target # critic

(* a step call that learnt nothing appended its record and nothing else *)
OnlyAppended ==
    \/ memory' = <<>>
    \/ /\ memory'[Len(memory')].id = n_add + 1
       /\ \E k \in 0..Len(memory) :
             SubSeq(memory', 1, Len(memory') - 1) =
                 SubSeq(memory, k + 1, Len(memory))

(* C8: t_step stays in 0..UPDATE_EVERY-1 and equals the number of step      *)
(* calls modulo UPDATE_EVERY; a step call starts at most one learning       *)
(* update, only when t_step wraps to zero and at least UPDATE_EVERY calls   *)
(* after the previous one; a call that does not learn changes no parameter  *)
(* and only appends its record.                                             *)
C8_LearningPeriod ==
    /\ [](/\ t_step \in 0..(UPDATE_EVERY - 1)
          /\ t_step = n_step % UPDATE_EVERY)
    /\ [][ n_step' = n_step + 1 =>
             /\ n_learn' \in {n_learn, n_learn + 1}
             /\ n_learn' = n_learn + 1 =>
                   /\ t_step' = 0
                   /\ last_learn = 0 \/ n_step' - last_learn >= UPDATE_EVERY
             /\ n_learn' = n_learn =>
                   /\ apc' = "idle"
                   /\ <<actor, critic, actor_target, critic_target>>' =
                          <<actor, critic, actor_target, critic_target>>
                   /\ OnlyAppended ]_vars

C8_Witness ==
    /\ UPDATE_EVERY = 2
    /\ n_learn = 2
    /\ n_step = 4
    /\ t_step = 0
    /\ apc = "idle"

(* a mini-batch larger than the buffer can ever hold, or no buffer at all *)
Misconfigured == BATCH_SIZE > BUFFER_SIZE \/ BUFFER_SIZE = 0

(* C9: under a configuration whose mini-batch exceeds the capacity (or     *)
(* whose capacity is 0) every Agent.step call fails.                        *)
C9_MisconfigurationFails ==
    [][ Misconfigured /\ n_step' = n_step + 1 => raised' ]_vars

(* the rewards the environment has handed out since its last reset *)
EpisodeRewards == [i \in 1..Len(env.outputs) |-> env.outputs[i].reward]

(* C3: when every episode scores 35, save_model is invoked at the 100th     *)
(* episode and at no earlier one.                                           *)
C3_EarlyStopAtEpisode100 ==
    ( /\ ddpg.pc # "none"
      /\ call.op = "save_model"
      /\ \A i \in 1..Len(ddpg.scores) : ddpg.scores[i] = 35 )
    => ddpg.i_episode = WindowLen

(* C4: an episode whose environment first reports done at its k-th step     *)
(* ends after exactly k Agent.step calls with the sum of those k rewards as *)
(* its score; done at step 5 under reward 1 gives 5 calls and score 5.      *)
C4_EpisodeUntilDone ==
    LET k == Len(env.outputs)
    IN  ( /\ ddpg.pc = "episode_end"
          /\ k >= 1
          /\ \E j \in 1..k : env.outputs[j].done )
        => /\ env.outputs[k].done
           /\ \A j \in 1..(k - 1) : ~env.outputs[j].done
           /\ ddpg.step_calls = k
           /\ ddpg.score = SumSeq(EpisodeRewards)
           /\ (k = 5 /\ \A j \in 1..k : env.outputs[j].reward = 1)
                 => ddpg.score = 5 /\ ddpg.step_calls = 5

C4_Witness ==
    /\ ddpg.pc = "episode_end"
    /\ Len(env.outputs) = 5
    /\ env.outputs[5].done
    /\ \A j \in 1..5 : env.outputs[j].reward = 1
    /\ ddpg.score = 5
    /\ ddpg.step_calls = 5
    /\ ddpg.max_t = 6

(* the properties of a run that hold whether or not it saves *)
RunBounded ==
    /\ Len(env.outputs) <= ddpg.max_t
    /\ ddpg.step_calls <= ddpg.max_t
    /\ env.resets <= ddpg.n_episodes
    /\ Len(ddpg.scores) <= ddpg.n_episodes
    /\ ddpg.pc = "returned" =>
          env.closed /\ ret = [kind |-> "scores", value |-> ddpg.scores]

(* C10 as stated: the run ends: an episode makes at most max_t iterations,  *)
(* the run at most n_episodes episodes, and then env.close() is called and  *)
(* the scores are returned, whether or not done or the threshold is ever    *)
(* reached.                                                                 *)
C10_AlwaysClosesAndReturns ==
    /\ []RunBounded
    /\ <>(ddpg.pc = "returned")

(* C10, amended: the run ends within the same bounds; it ends with          *)
(* env.close() and the return of the scores unless save_model raised at    *)
(* the episode that reached the threshold, and then it ends with that       *)
(* exception, the environment left open and no scores returned; a run      *)
(* whose checkpoint files can be written never ends that way, so it ends    *)
(* by returning.                                                            *)
C10_TrainingTerminates ==
    /\ [](/\ RunBounded
          /\ ddpg.pc = "raised" =>
                /\ call.op = "save_model"
                /\ raised
                /\ SaveFails(SaveDefaultPath)
                /\ ~env.closed
                /\ ret.kind # "scores"
                /\ Solved(ddpg.scores_window))
    /\ <>(ddpg.pc \in {"returned", "raised"})

C10_Witness ==
    /\ ddpg.pc = "returned"
    /\ ddpg.saves = 0
    /\ ddpg.n_episodes = 2
    /\ Len(ddpg.scores) = 2
    /\ ddpg.max_t = 3
    /\ ddpg.step_calls = 3
    /\ ~ddpg.done

(* the last (at most WindowLen) of the first k episode scores *)
WindowAt(scores, k) ==
    SubSeq(scores, IF k > WindowLen THEN k - WindowLen + 1 ELSE 1, k)

(* the window mean is at least the threshold after the k-th episode *)
SolvedAt(k) == Solved(WindowAt(ddpg.scores, k))

(* the loop has called agent.save_model (the only caller in a training run) *)
SaveInvoked == call.op = "save_model"

(* C11: save_model has been invoked iff the window mean was >= 30 after     *)
(* some completed episode; it is invoked at most once, at the first such    *)
(* episode; after it no episode starts and neither env.step nor Agent.step  *)
(* is called; a run that ends without it has run all n_episodes episodes.   *)
C11_SaveIffSolved ==
    /\ [](/\ ddpg.saves <= 1
          /\ SaveInvoked <=> \E k \in 1..Len(ddpg.scores) : SolvedAt(k)
          /\ SaveInvoked =>
                /\ SolvedAt(Len(ddpg.scores))
                /\ \A k \in 1..(Len(ddpg.scores) - 1) : ~SolvedAt(k)
                /\ ddpg.pc \in {"close", "returned", "raised"}
          /\ ddpg.saves = 1 <=> SaveInvoked /\ ~raised
          /\ ddpg.saves = 1 =>
                /\ files[ActorFile(SaveDefaultPath)] # Absent
                /\ files[CriticFile(SaveDefaultPath)] # Absent
          /\ ~SaveInvoked =>
                /\ \A p \in FilePaths : files[p] = Absent
                /\ ddpg.pc = "returned" => Len(ddpg.scores) = ddpg.n_episodes)
    /\ [][ SaveInvoked =>
             /\ call' = call
             /\ files' = files
             /\ raised' = raised
             /\ ddpg.saves' = ddpg.saves
             /\ ddpg.i_episode' = ddpg.i_episode
             /\ ddpg.scores' = ddpg.scores
             /\ env.resets' = env.resets
             /\ env.outputs' = env.outputs
             /\ n_step' = n_step ]_vars

C11_Witness ==
    /\ ddpg.pc = "returned"
    /\ ddpg.saves = 1
    /\ ddpg.n_episodes = 3
    /\ Len(ddpg.scores) = 2
    /\ ~SolvedAt(1)
    /\ call.op = "save_model"

(* b holds BATCH_SIZE rows, row i of all five arrays built from one record  *)
(* of the buffer, and no two rows from the same position                    *)
DrawnFrom(b, mem) ==
    /\ \A f \in {"ids", "states", "actions", "rewards", "next_states", "dones"} :
          DOMAIN b[f] = 1..BATCH_SIZE
    /\ \E pos \in [1..BATCH_SIZE -> 1..Len(mem)] :
          /\ Cardinality({pos[i] : i \in 1..BATCH_SIZE}) = BATCH_SIZE
          /\ \A i \in 1..BATCH_SIZE :
                /\ b.ids[i] = mem[pos[i]].id
                /\ b.states[i] = mem[pos[i]].state
                /\ b.actions[i] = mem[pos[i]].action
                /\ b.rewards[i] = mem[pos[i]].reward
                /\ b.next_states[i] = mem[pos[i]].next_state
                /\ b.dones[i] = (IF mem[pos[i]].done THEN 1 ELSE 0)

(* C12: a sample() on a buffer of at least batch_size records returns       *)
(* batch_size rows from batch_size distinct positions of the buffer, the    *)
(* five arrays aligned row by row to the same records, and the buffer's     *)
(* contents, order and length are what they were before the call.           *)
C12_SampleDistinctAligned ==
    /\ [](/\ ret.kind = "batch" => DrawnFrom(ret.value, memory)
          /\ experiences # NoBatch => DrawnFrom(experiences, memory))
    /\ [][ call'.op = "sample" =>
             /\ memory' = memory
             /\ n_add' = n_add
             /\ BATCH_SIZE <= Len(memory) => ~raised' /\ ret'.kind = "batch" ]_vars

C12_Witness ==
    /\ call.op = "sample"
    /\ ret.kind = "batch"
    /\ BATCH_SIZE = 2
    /\ Len(memory) = 2
    /\ memory[1].state # memory[2].state
    /\ ret.value.ids = <<2, 1>>

(* C13: act(state) leaves the live and target parameters, the replay        *)
(* buffer, t_step, the gradients and the checkpoint files as they were and  *)
(* returns with the actor in training mode; what it returns is the live     *)
(* actor's output for that state and nothing else, so two calls with one    *)
(* state and unchanged parameters return the same action, without noise.    *)
C13_ActIsPure ==
    /\ [](call.op = "act" =>
             /\ mode = "train"
             /\ ~raised
             /\ ret = [kind |-> "action",
                       value |-> ActorForward(actor, call.arg)])
    /\ [][ call'.op = "act" =>
             <<actor, critic, actor_target, critic_target, memory, t_step,
               n_add, n_step, n_learn, grads, files, apc>>' =
             <<actor, critic, actor_target, critic_target, memory, t_step,
               n_add, n_step, n_learn, grads, files, apc>> ]_vars

C13_Witness ==
    /\ call.op = "act"
    /\ call.arg = 1
    /\ n_learn >= 1
    /\ actor # ActorInit
    /\ actor_target # actor
    /\ Len(memory) = 2
    /\ t_step = 1
    /\ mode = "train"

(* what neither save_model nor load_model may change *)
CheckpointFrame ==
    <<actor_target, critic_target, memory, t_step, n_add, n_step, n_learn>>

(* d exists as a directory and neither artifact name in it is a directory *)
Writable(d) == CanWrite(ActorFile(d)) /\ CanWrite(CriticFile(d))

(* C14 as stated: for any d, save_model(d) writes the live actor to         *)
(* d/actor.pt and the live critic to d/critic.pt, and a later load_model(d) *)
(* restores the values of that save; neither call changes the targets, the  *)
(* buffer or t_step.                                                        *)
C14_AnyDirectoryRoundTrip ==
    /\ [][ call'.op = "save_model" =>
             /\ files'[ActorFile(call'.arg)] = actor
             /\ files'[CriticFile(call'.arg)] = critic
             /\ actor' = actor /\ critic' = critic
             /\ CheckpointFrame' = CheckpointFrame ]_vars
    /\ [][ call'.op = "load_model" =>
             /\ saved[call'.arg] # Absent =>
                   /\ ~raised'
                   /\ actor' = saved[call'.arg][1]
                   /\ critic' = saved[call'.arg][2]
             /\ files' = files
             /\ CheckpointFrame' = CheckpointFrame ]_vars

(* C14, amended: for a directory d that exists and in which neither         *)
(* actor.pt nor critic.pt is a directory, save_model(d) writes the live     *)
(* actor to d/actor.pt and the live critic to d/critic.pt, two different    *)
(* files, and a later load_model(d) sets the live actor and critic to the   *)
(* values of the latest save_model(d), whatever learning happened in        *)
(* between; for every d, neither call changes the target networks, the      *)
(* replay buffer or t_step.                                                 *)
C14_SaveLoadRoundTrip ==
    /\ [](\A d \in Dirs :
             /\ ActorFile(d) = Resolve(d) \o <<"actor.pt">>
             /\ CriticFile(d) = Resolve(d) \o <<"critic.pt">>
             /\ saved[d] # Absent =>
                   /\ Writable(d)
                   /\ files[ActorFile(d)] = saved[d][1]
                   /\ files[CriticFile(d)] = saved[d][2])
    /\ [][ call'.op = "save_model" =>
             /\ Writable(call'.arg) =>
                   /\ ~raised'
                   /\ files'[ActorFile(call'.arg)] = actor
                   /\ files'[CriticFile(call'.arg)] = critic
                   /\ saved'[call'.arg] = <<actor, critic>>
             /\ actor' = actor /\ critic' = critic
             /\ CheckpointFrame' = CheckpointFrame ]_vars
    /\ [][ call'.op = "load_model" =>
             /\ (Writable(call'.arg) /\ saved[call'.arg] # Absent) =>
                   /\ ~raised'
                   /\ actor' = saved[call'.arg][1]
                   /\ critic' = saved[call'.arg][2]
             /\ files' = files
             /\ CheckpointFrame' = CheckpointFrame ]_vars

C14_Witness ==
    /\ call.op = "load_model"
    /\ ~raised
    /\ n_learn >= 1
    /\ saved[call.arg] = <<ActorInit, CriticInit>>
    /\ actor = ActorInit
    /\ critic = CriticInit
    /\ actor_target # actor
    /\ critic_target # critic

(* C15: the gradient actor_optimizer.step() applies holds the policy loss   *)
(* of this learn call and nothing else; the gradient critic_optimizer       *)
(* .step() applies holds the critic loss of this call and nothing else,     *)
(* the policy loss that backward left on the critic having been cleared;    *)
(* the target networks never hold a gradient and no optimizer step moves    *)
(* them.  (An optimizer step leaves the accumulators as it found them, so   *)
(* the accumulators after the step are the gradient it applied.)            *)
C15_GradientIsolation ==
    /\ [](grads.actor_target = {} /\ grads.critic_target = {})
    /\ [][ (apc = "actor_step" /\ apc' = "critic_step" =>
                /\ grads'.actor = {[loss |-> "policy", learn |-> n_learn]}
                /\ critic' = critic)
           /\ (apc = "critic_step" /\ apc' = "actor_soft" =>
                /\ grads'.critic = {[loss |-> "critic", learn |-> n_learn]}
                /\ actor' = actor)
           /\ (apc \in {"actor_step", "critic_step"} =>
                /\ actor_target' = actor_target
                /\ critic_target' = critic_target) ]_vars

C15_Witness ==
    /\ apc = "critic_step"
    /\ n_learn = 2
    /\ grads.actor = {[loss |-> "policy", learn |-> 2]}
    /\ grads.critic = {[loss |-> "critic", learn |-> 1],
                       [loss |-> "policy", learn |-> 2]}

(* the calls of one loop iteration, in the order the claim gives them *)
IterationOrder == <<"act", "noise", "env.step", "agent.step">>

(* C16: the calls of an episode are env.reset, noise.reset, then whole      *)
(* iterations of act, noise, env.step, agent.step in that order; the noise  *)
(* process gets step index 0 in the first iteration and one more in each    *)
(* later one; act gets the observation of env.reset in the first iteration  *)
(* and afterwards the next_state the previous env.step returned; agent.step *)
(* follows the env.step of its own iteration; the episode ends only after   *)
(* a whole iteration.                                                       *)
C16_EpisodeProtocol ==
    LET T == ddpg.calls
    IN  /\ Len(T) >= 1 => T[1].op = "env.reset"
        /\ Len(T) >= 2 => T[2].op = "noise.reset"
        /\ \A j \in 3..Len(T) :
              LET i    == (j - 3) \div 4
                  slot == (j - 3) % 4
              IN  /\ T[j].op = IterationOrder[slot + 1]
                  /\ slot = 0 =>
                        T[j].val = (IF i = 0 THEN T[1].val ELSE T[j - 2].val)
                  /\ slot = 1 => T[j].val = i
                  /\ slot = 3 => T[j].val = T[j - 1].val
        /\ ddpg.pc \in {"reset", "for_episode"} /\ ddpg.i_episode = 0 => T = <<>>
        /\ ddpg.pc \in {"act", "noise", "env_step", "agent_step",
                         "after_step", "episode_end"} => Len(T) >= 2
        /\ ddpg.pc \in {"for_step", "episode_end"} => (Len(T) - 2) % 4 = 0

C16_Witness ==
    /\ ddpg.pc = "episode_end"
    /\ ddpg.i_episode = 2
    /\ Len(ddpg.calls) = 14
    /\ ddpg.done
    /\ ddpg.calls[11].op = "act"
    /\ ddpg.calls[11].val = 2
    /\ ddpg.calls[12].val = 2

(* the step calls, among the first n, at which a learning update is due *)
LearningCalls(n) ==
    {k \in 1..n : k % UPDATE_EVERY = 0 /\ Min(k, BUFFER_SIZE) > BATCH_SIZE}

(* C17: the buffer length never decreases; once it exceeds BATCH_SIZE every *)
(* step call at which t_step wraps to zero draws one mini-batch and starts  *)
(* one learning update; after N step calls the number of learning updates   *)
(* is the number of k in 1..N with k mod UPDATE_EVERY = 0 and               *)
(* min(k, BUFFER_SIZE) > BATCH_SIZE.                                        *)
C17_LearningCount ==
    /\ [](/\ n_learn = Cardinality(LearningCalls(n_step))
          /\ (BUFFER_SIZE > BATCH_SIZE /\ n_step > BATCH_SIZE) =>
                Len(memory) > BATCH_SIZE)
    /\ [][ Len(memory') >= Len(memory) ]_vars
    /\ [][ (n_step' = n_step + 1 /\ Len(memory) > BATCH_SIZE /\ t_step' = 0) =>
             /\ n_learn' = n_learn + 1
             /\ apc' = "learn"
             /\ experiences' # NoBatch
             /\ Len(experiences'.ids) = BATCH_SIZE ]_vars

C17_Witness ==
    /\ BUFFER_SIZE = 3
    /\ BATCH_SIZE = 1
    /\ UPDATE_EVERY = 1
    /\ n_step = 4
    /\ n_learn = 3
    /\ apc = "idle"
    /\ Len(memory) = 3

(* C18: the transition Agent.step receives, and the record it stores, hold  *)
(* the action env.step was given in this iteration (the perturbed one) and  *)
(* the state before, the reward, the next state and the done flag of that   *)
(* same environment step.                                                   *)
C18_StoredActionIsSubmitted ==
    ddpg.pc = "after_step" =>
        LET e   == memory[Len(memory)]
            out == env.outputs[Len(env.outputs)]
        IN  /\ call.op = "step"
            /\ call.arg.action = env.action
            /\ call.arg.state = env.obs - 1
            /\ call.arg.next_state = env.obs
            /\ call.arg.reward = out.reward
            /\ call.arg.done = out.done
            /\ Len(memory) >= 1
            /\ e.id = n_add
            /\ e.action = env.action
            /\ e.state = env.obs - 1
            /\ e.next_state = env.obs
            /\ e.reward = out.reward
            /\ e.done = out.done

C18_Witness ==
    /\ ddpg.pc = "after_step"
    /\ Len(env.outputs) = 2
    /\ memory[Len(memory)].action = env.action
    /\ memory[Len(memory)].action # ddpg.raw_action
    /\ memory[Len(memory)].reward = 35
    /\ memory[Len(memory)].done
    /\ memory[1].reward = 1

(* C19: a load_model() with its default path right after a save_model()    *)
(* with its default path succeeds and sets the live actor and critic to    *)
(* the parameters that save_model() wrote.                                  *)
C19_DefaultPathsAgree ==
    [][ ( /\ call.op = "save_model" /\ call.arg = SaveDefaultPath /\ ~raised
          /\ call'.op = "load_model" /\ call'.arg = LoadDefaultPath )
        => /\ ~raised'
           /\ actor' = saved[SaveDefaultPath][1]
           /\ critic' = saved[SaveDefaultPath][2] ]_vars

====
